---- MODULE Spec2Model ----
(***************************************************************************)
(* Model of payroll_processor.py: the Employee record and its validation,  *)
(* the PayrollProcessor (construction, calculate_payroll, generate_report) *)
(* and the error log the except-handlers write to.                         *)
(*                                                                         *)
(* decimal.Decimal values are modelled as a coefficient and a scale        *)
(* (value = coef / 10^scale), plus the two infinities.  Arithmetic keeps   *)
(* the scale the way Decimal does (a product adds the scales, a sum takes  *)
(* the larger one), == and < compare numerically, and an operation that    *)
(* signals decimal.InvalidOperation yields Invalid, which the callers turn *)
(* into a raised exception.  All values of the model stay far below the    *)
(* 28 significant digits of the default context, so no operation rounds.   *)
(***************************************************************************)
EXTENDS Integers, Sequences, FiniteSets, TLC

VARIABLES args, phase, employees, subject, log, last, ret, probe

vars == <<args, phase, employees, subject, log, last, ret, probe>>

(***************************************************************************)
(* Bounds of the model.                                                    *)
(***************************************************************************)
MaxRoster == 2
MaxLog == 4

(***************************************************************************)
(* decimal.Decimal                                                         *)
(***************************************************************************)
RECURSIVE Pow10(_)
Pow10(n) == IF n <= 0 THEN 1 ELSE 10 * Pow10(n - 1)

Abs(n) == IF n < 0 THEN -n ELSE n

Max(a, b) == IF a >= b THEN a ELSE b

Dec(c, s) == [kind |-> "fin", coef |-> c, scale |-> s]

Infinity == [kind |-> "inf", coef |-> 1, scale |-> 0]

NegInfinity == [kind |-> "inf", coef |-> -1, scale |-> 0]

Invalid == [kind |-> "invalid", coef |-> 0, scale |-> 0]

FromInt(n) == Dec(n, 0)

IsFinite(d) == d.kind = "fin"

Sign(d) == IF d.coef > 0 THEN 1 ELSE IF d.coef < 0 THEN -1 ELSE 0

\* The coefficient of d written with s decimal places (s >= d.scale).
Scaled(d, s) == d.coef * Pow10(s - d.scale)

\* -1, 0 or 1: the numerical order of two decimals.
DecCmp(a, b) ==
    IF a.kind = "inf" \/ b.kind = "inf"
    THEN LET x == IF a.kind = "inf" THEN 2 * a.coef ELSE 0
             y == IF b.kind = "inf" THEN 2 * b.coef ELSE 0
         IN  IF x < y THEN -1 ELSE IF x > y THEN 1 ELSE 0
    ELSE LET s == Max(a.scale, b.scale)
             x == Scaled(a, s)
             y == Scaled(b, s)
         IN  IF x < y THEN -1 ELSE IF x > y THEN 1 ELSE 0

DecLt(a, b) == DecCmp(a, b) < 0

DecLe(a, b) == DecCmp(a, b) <= 0

DecGt(a, b) == DecCmp(a, b) > 0

DecNeg(a) == [a EXCEPT !.coef = -a.coef]

DecAdd(a, b) ==
    IF a.kind = "invalid" \/ b.kind = "invalid" THEN Invalid
    ELSE IF a.kind = "inf" /\ b.kind = "inf"
    THEN IF a.coef = b.coef THEN a ELSE Invalid
    ELSE IF a.kind = "inf" THEN a
    ELSE IF b.kind = "inf" THEN b
    ELSE LET s == Max(a.scale, b.scale)
         IN  Dec(Scaled(a, s) + Scaled(b, s), s)

DecSub(a, b) == IF b.kind = "invalid" THEN Invalid ELSE DecAdd(a, DecNeg(b))

DecMul(a, b) ==
    IF a.kind = "invalid" \/ b.kind = "invalid" THEN Invalid
    ELSE IF a.kind = "inf" \/ b.kind = "inf"
    THEN IF Sign(a) = 0 \/ Sign(b) = 0 THEN Invalid
         ELSE IF Sign(a) = Sign(b) THEN Infinity ELSE NegInfinity
    ELSE Dec(a.coef * b.coef, a.scale + b.scale)

(***************************************************************************)
(* Strings are sequences of one-character strings, so that formatting      *)
(* produces what it prints.                                                *)
(***************************************************************************)
Digit(n) == CASE n = 0 -> "0" [] n = 1 -> "1" [] n = 2 -> "2" [] n = 3 -> "3"
              [] n = 4 -> "4" [] n = 5 -> "5" [] n = 6 -> "6" [] n = 7 -> "7"
              [] n = 8 -> "8" [] n = 9 -> "9"

\* The decimal digits of a natural number, without leading zeros ("0" for 0).
RECURSIVE Digits(_)
Digits(n) == IF n < 10 THEN <<Digit(n)>> ELSE Digits(n \div 10) \o <<Digit(n % 10)>>

\* The last k decimal digits of n, zero-padded on the left.
RECURSIVE Padded(_, _)
Padded(n, k) == IF k = 0 THEN << >> ELSE Padded(n \div 10, k - 1) \o <<Digit(n % 10)>>

\* A (possibly signed) coefficient printed with s decimal places.
Plain(c, s) ==
    (IF c < 0 THEN <<"-">> ELSE << >>)
      \o Digits(Abs(c) \div Pow10(s))
      \o (IF s = 0 THEN << >> ELSE <<".">> \o Padded(Abs(c) % Pow10(s), s))

\* str(Decimal): the value with the decimal places it was built with.
DecStr(d) ==
    IF d.kind = "inf"
    THEN (IF d.coef < 0 THEN <<"-">> ELSE << >>) \o <<"Infinity">>
    ELSE Plain(d.coef, d.scale)

\* The coefficient of d at 2 decimal places, rounded half-even (the rounding
\* of the default decimal context, which format(d, ".2f") applies).
Quantize2(d) ==
    IF d.scale <= 2 THEN Scaled(d, 2)
    ELSE LET p == Pow10(d.scale - 2)
             m == Abs(d.coef)
             q == m \div p
             r == m % p
             up == 2 * r > p \/ (2 * r = p /\ q % 2 = 1)
         IN  Sign(d) * (IF up THEN q + 1 ELSE q)

\* format(d, ".2f")
Format2f(d) ==
    IF d.kind = "inf" THEN DecStr(d)
    ELSE LET c == Quantize2(d)
         IN  (IF d.coef < 0 /\ c = 0 THEN <<"-">> ELSE << >>) \o Plain(c, 2)

(***************************************************************************)
(* Constants of payroll_processor.py                                       *)
(***************************************************************************)
REGULAR_HOURS == 40

OVERTIME_MULTIPLIER == Dec(15, 1)

TAX_RATE == Dec(2, 1)

(***************************************************************************)
(* Employee.  A name is any Python object: a str (isStr, text its          *)
(* characters) or something else (text its str(), e.g. None or 123).       *)
(***************************************************************************)
Str(t) == [isStr |-> TRUE, text |-> t]

NotStr(t) == [isStr |-> FALSE, text |-> t]

\* bool(name): the empty string and None are falsy.
Truthy(name) == IF name.isStr THEN name.text # "" ELSE name.text # "None"

Employee(n, h, r) == [name |-> n, hours_worked |-> h, hourly_rate |-> r]

NoError == ""

InvalidName == "Employee name must be a non-empty string"

NegativeHours == "Hours worked cannot be negative"

NonPositiveRate == "Hourly rate must be positive"

EmptyRoster == "Employee list cannot be empty"

InvalidOperation == "[<class 'decimal.InvalidOperation'>]"

\* validate with the rate compared by < instead of <=.
validate_zero_rate(e) ==
    IF ~Truthy(e.name) \/ ~e.name.isStr THEN InvalidName
    ELSE IF DecLt(e.hours_worked, FromInt(0)) THEN NegativeHours
    ELSE IF DecLt(e.hourly_rate, FromInt(0)) THEN NonPositiveRate
    ELSE NoError

\* Employee.validate: the message of the ValueError raised, NoError if none.
validate(e) ==
    IF ~Truthy(e.name) \/ ~e.name.isStr THEN InvalidName
    ELSE IF DecLt(e.hours_worked, FromInt(0)) THEN NegativeHours
    ELSE IF DecLe(e.hourly_rate, FromInt(0)) THEN NonPositiveRate
    ELSE NoError

\* PayrollProcessor._validate_employees: the error raised (NoError if none) and
\* the number of employees validate was called on before returning or raising.
RECURSIVE validate_loop(_, _)
validate_step(emps, i, error) ==
    IF error # NoError THEN [error |-> error, calls |-> i]
    ELSE validate_loop(emps, i + 1)

validate_loop(emps, i) ==
    IF i > Len(emps) THEN [error |-> NoError, calls |-> i - 1]
    ELSE validate_step(emps, i, validate(emps[i]))

\* _validate_employees without the check for an empty list.
validate_employees_unchecked(emps) == validate_loop(emps, 1)

validate_employees(emps) ==
    IF emps = << >> THEN [error |-> EmptyRoster, calls |-> 0]
    ELSE validate_loop(emps, 1)

(***************************************************************************)
(* PayrollProcessor.calculate_payroll                                      *)
(***************************************************************************)
NoValue == << >>

LogRecord(msg) == [level |-> "ERROR", msg |-> msg]

\* tax_amount, net_pay and the dictionary returned (lines 59-68).
breakdown(overtime_hours, overtime_pay, gross_pay, tax_amount) ==
    [overtime_hours |-> overtime_hours, overtime_pay |-> overtime_pay,
     gross_pay |-> gross_pay, tax_amount |-> tax_amount,
     net_pay |-> DecSub(gross_pay, tax_amount)]

\* The tax rounded to cents when it is computed.
taxed_in_cents(overtime_hours, overtime_pay, gross_pay) ==
    breakdown(overtime_hours, overtime_pay, gross_pay,
              Dec(Quantize2(DecMul(gross_pay, TAX_RATE)), 2))

taxed(overtime_hours, overtime_pay, gross_pay) ==
    breakdown(overtime_hours, overtime_pay, gross_pay, DecMul(gross_pay, TAX_RATE))

\* regular_pay and gross_pay of the overtime branch.
with_regular_pay(e, overtime_hours, overtime_pay) ==
    taxed(overtime_hours, overtime_pay,
          DecAdd(DecMul(FromInt(REGULAR_HOURS), e.hourly_rate), overtime_pay))

\* The overtime rate paid on all hours worked instead of the overtime hours.
with_overtime_on_all_hours(e, overtime_hours) ==
    with_regular_pay(e, overtime_hours,
                     DecMul(e.hours_worked,
                            DecMul(e.hourly_rate, OVERTIME_MULTIPLIER)))

\* overtime_pay of the overtime branch.
with_overtime(e, overtime_hours) ==
    with_regular_pay(e, overtime_hours,
                     DecMul(overtime_hours,
                            DecMul(e.hourly_rate, OVERTIME_MULTIPLIER)))

\* The overtime branch taken whatever the hours.
payroll_amounts_unguarded(e) ==
    with_overtime(e, DecSub(e.hours_worked, FromInt(REGULAR_HOURS)))

\* The try block: the five amounts, Invalid where the arithmetic signals.
payroll_amounts(e) ==
    IF DecGt(e.hours_worked, FromInt(REGULAR_HOURS))
    THEN with_overtime(e, DecSub(e.hours_worked, FromInt(REGULAR_HOURS)))
    ELSE taxed(Dec(0, 0), Dec(0, 0), DecMul(e.hours_worked, e.hourly_rate))

\* What the call does with the amounts b: returns them, or, when the
\* arithmetic signalled, logs the exception and re-raises it.
payroll_outcome(e, b) ==
    IF \E f \in DOMAIN b : b[f].kind = "invalid"
    THEN [error |-> InvalidOperation, value |-> NoValue,
          logged |-> <<LogRecord(<<"Error calculating payroll for ",
                                   e.name.text, ": ", InvalidOperation>>)>>]
    ELSE [error |-> NoError, value |-> b, logged |-> << >>]

\* The whole method: the breakdown returned, or the exception raised after the
\* except-handler has logged it; logged is what the call appends to the log.
calculate_payroll(e) == payroll_outcome(e, payroll_amounts(e))

(***************************************************************************)
(* PayrollProcessor.generate_report                                        *)
(***************************************************************************)
report_line(e, payroll) ==
    <<e.name.text, " worked ">> \o DecStr(e.hours_worked)
      \o <<" hrs, ", "gross $">> \o Format2f(payroll.gross_pay)
      \o <<", ", "net $">> \o Format2f(payroll.net_pay)

\* "\n".join(lines)
RECURSIVE join(_)
join(lines) ==
    IF lines = << >> THEN << >>
    ELSE IF Len(lines) = 1 THEN lines[1]
    ELSE lines[1] \o <<"\n">> \o join(Tail(lines))

\* The for loop, from employee i on.
RECURSIVE report_loop(_, _, _, _, _)

\* The totals accumulated from the amounts as printed, rounded to cents.
report_step_rounded(emps, i, total_gross, total_net, report_lines, payroll) ==
    IF payroll.error # NoError
    THEN [error |-> payroll.error, logged |-> payroll.logged, value |-> NoValue]
    ELSE report_loop(emps, i + 1,
                     DecAdd(total_gross, Dec(Quantize2(payroll.value.gross_pay), 2)),
                     DecAdd(total_net, Dec(Quantize2(payroll.value.net_pay), 2)),
                     Append(report_lines, report_line(emps[i], payroll.value)))

\* An employee whose calculation fails left out of the report.
report_step_skipping(emps, i, total_gross, total_net, report_lines, payroll) ==
    IF payroll.error # NoError
    THEN report_loop(emps, i + 1, total_gross, total_net, report_lines)
    ELSE report_loop(emps, i + 1,
                     DecAdd(total_gross, payroll.value.gross_pay),
                     DecAdd(total_net, payroll.value.net_pay),
                     Append(report_lines, report_line(emps[i], payroll.value)))

\* The rest of the loop body once calculate_payroll has returned or raised.
report_step(emps, i, total_gross, total_net, report_lines, payroll) ==
    IF payroll.error # NoError
    THEN [error |-> payroll.error, logged |-> payroll.logged, value |-> NoValue]
    ELSE report_loop(emps, i + 1,
                     DecAdd(total_gross, payroll.value.gross_pay),
                     DecAdd(total_net, payroll.value.net_pay),
                     Append(report_lines, report_line(emps[i], payroll.value)))

\* The for loop from employee i on, then the footer and the join.
report_loop(emps, i, total_gross, total_net, report_lines) ==
    IF i > Len(emps)
    THEN [error |-> NoError, logged |-> << >>,
          value |-> join(report_lines \o
                         << <<"Total Gross: $">> \o Format2f(total_gross),
                            <<"Total Net: $">> \o Format2f(total_net) >>)]
    ELSE report_step(emps, i, total_gross, total_net, report_lines,
                     calculate_payroll(emps[i]))

\* The except-handler of generate_report: logs the exception and re-raises it.
report_outcome(body) ==
    IF body.error # NoError
    THEN [error |-> body.error, value |-> NoValue,
          logged |-> body.logged \o
             <<LogRecord(<<"Error generating report: ", body.error>>)>>]
    ELSE body

\* The whole method: the report returned, or the exception raised.
generate_report(emps) ==
    report_outcome(report_loop(emps, 1, Dec(0, 0), Dec(0, 0),
                               << <<"Employee Payroll Report:">>,
                                  <<"========================">> >>))

(***************************************************************************)
(* The inputs.                                                             *)
(***************************************************************************)
John == Employee(Str("John"), Dec(40, 0), Dec(15, 0))

Jane == Employee(Str("Jane"), Dec(45, 0), Dec(20, 0))

\* Scenario D of the tests: 40.5 hours at 15.75.
JohnD == Employee(Str("John"), Dec(405, 1), Dec(1575, 2))

\* The roster main() builds.
MainRoster ==
    << John,
       Employee(Str("Jane"), Dec(38, 0), Dec(17, 0)),
       Employee(Str("Doe"), Dec(45, 0), Dec(12, 0)),
       Employee(Str("Mark"), Dec(50, 0), Dec(20, 0)) >>

\* The employees a roster handed to the constructor is drawn from: valid
\* ones, one per validation error, one with two errors at once, and one that
\* passes validation with an infinite number of hours.
RosterPool ==
    { John, Jane,
      Employee(Str("Mark"), Dec(45, 0), Dec(20, 0)),
      Employee(Str("Ann"), Dec(15, 1), Dec(1275, 2)),
      Employee(Str("Max"), Infinity, Dec(15, 0)),
      Employee(Str(""), Dec(40, 0), Dec(15, 0)),
      Employee(Str("Bob"), Dec(-1, 0), Dec(15, 0)),
      Employee(Str("Eve"), Dec(40, 0), Dec(0, 0)),
      Employee(Str("Sam"), Dec(-1, 0), Dec(0, 0)) }

Rosters == UNION { [1..n -> RosterPool] : n \in 0..MaxRoster }

\* The employees the directly called operations are applied to.
Names == { Str("John"), Str(""), NotStr("None"), NotStr("123") }

Hours == { NegInfinity, Dec(-1, 0), Dec(-5, 1), Dec(0, 0), Dec(38, 0), Dec(395, 1),
           Dec(40, 0), Dec(400, 1), Dec(405, 1), Dec(45, 0), Dec(50, 0), Infinity }

Rates == { NegInfinity, Dec(-5, 0), Dec(0, 0), Dec(12, 0), Dec(15, 0),
           Dec(1575, 2), Dec(20, 0), Infinity }

Employees == { Employee(n, h, r) : n \in Names, h \in Hours, r \in Rates }

(***************************************************************************)
(* The state.  args is the list the caller hands to PayrollProcessor(...), *)
(* employees the processor's field, subject an employee the caller holds   *)
(* and passes to validate / calculate_payroll directly, log the records    *)
(* written through logger.error.  last and ret describe the most recent    *)
(* call (mark: the length of the log when it started) and what it          *)
(* returned; probe remembers the first calculate_payroll call.             *)
(***************************************************************************)
NoCall == [op |-> "none", target |-> 0, error |-> NoError, mark |-> 0]

NoProbe == [set |-> FALSE, target |-> 0, hours_worked |-> Dec(0, 0), hourly_rate |-> Dec(0, 0),
            error |-> NoError, value |-> NoValue]

Probe(e, target, r) ==
    IF probe.set THEN probe
    ELSE [set |-> TRUE, target |-> target, hours_worked |-> e.hours_worked,
          hourly_rate |-> e.hourly_rate, error |-> r.error, value |-> r.value]

\* Before PayrollProcessor(args) is called.
Init ==
    /\ args \in Rosters
    /\ phase = "new"
    /\ employees = << >>
    /\ subject = JohnD
    /\ log = << >>
    /\ last = NoCall
    /\ ret = NoValue
    /\ probe = NoProbe

\* A call op on target that ends with outcome r (returned or raised).
Returns(op, target, r) ==
    /\ log' = log \o r.logged
    /\ last' = [op |-> op, target |-> target, error |-> r.error, mark |-> Len(log)]
    /\ ret' = r.value

Constructed(r) ==
    /\ phase' = IF r.error = NoError THEN "ready" ELSE "rejected"
    /\ last' = [op |-> "construct", target |-> 0, error |-> r.error,
                mark |-> Len(log)]
    /\ ret' = r.calls

\* PayrollProcessor(args): __init__ stores the list, then validates it.
Construct ==
    /\ phase = "new"
    /\ employees' = args
    /\ Constructed(validate_employees(args))
    /\ UNCHANGED <<args, subject, log, probe>>

Calculated(e, target, r) ==
    /\ Returns("calc", target, r)
    /\ probe' = Probe(e, target, r)

\* calculate_payroll taking the regular hours off the employee's record.
CalculatePayroll_in_place(i) ==
    /\ phase = "ready"
    /\ i \in 1..Len(employees)
    /\ Len(log) < MaxLog
    /\ Calculated(employees[i], i, calculate_payroll(employees[i]))
    /\ employees' =
          IF DecGt(employees[i].hours_worked, FromInt(REGULAR_HOURS))
          THEN [employees EXCEPT ![i].hours_worked =
                   DecSub(employees[i].hours_worked, FromInt(REGULAR_HOURS))]
          ELSE employees
    /\ UNCHANGED <<args, phase, subject>>

\* processor.calculate_payroll(processor.employees[i])
CalculatePayroll(i) ==
    /\ phase = "ready"
    /\ i \in 1..Len(employees)
    /\ Len(log) < MaxLog
    /\ Calculated(employees[i], i, calculate_payroll(employees[i]))
    /\ UNCHANGED <<args, phase, employees, subject>>

\* generate_report popping the employees off the roster as it goes.
GenerateReport_consuming ==
    /\ phase = "ready"
    /\ Len(log) + 2 <= MaxLog
    /\ Returns("report", 0, generate_report(employees))
    /\ employees' = << >>
    /\ UNCHANGED <<args, phase, subject, probe>>

\* processor.generate_report()
GenerateReport ==
    /\ phase = "ready"
    /\ Len(log) + 2 <= MaxLog
    /\ Returns("report", 0, generate_report(employees))
    /\ UNCHANGED <<args, phase, employees, subject, probe>>

Next ==
    \/ Construct
    \/ \E i \in 1..MaxRoster : CalculatePayroll(i)
    \/ GenerateReport

Spec == Init /\ [][Next]_vars

(***************************************************************************)
(* The operations called directly on one employee, with the processor of   *)
(* main() at hand.                                                         *)
(***************************************************************************)
InitCalc ==
    /\ args = MainRoster
    /\ phase = "ready"
    /\ employees = MainRoster
    /\ subject \in Employees
    /\ log = << >>
    /\ last = NoCall
    /\ ret = NoValue
    /\ probe = NoProbe

\* subject.validate()
Validate ==
    /\ last' = [op |-> "validate", target |-> 0, error |-> validate(subject),
                mark |-> Len(log)]
    /\ ret' = NoValue
    /\ UNCHANGED <<args, phase, employees, subject, log, probe>>

\* processor.calculate_payroll(subject)
CalculateSubject ==
    /\ phase = "ready"
    /\ Len(log) < MaxLog
    /\ Calculated(subject, 0, calculate_payroll(subject))
    /\ UNCHANGED <<args, phase, employees, subject>>

NextCalc ==
    \/ Validate
    \/ CalculateSubject

SpecCalc == InitCalc /\ [][NextCalc]_vars

(***************************************************************************)
(* What the properties are stated with: the exact value of a decimal as an *)
(* integer number of 10^-5 (no amount of the model has more than 5 decimal *)
(* places), and the constraints of an employee record read off its fields. *)
(***************************************************************************)
Units(d) == d.coef * Pow10(5 - d.scale)

Finite(e) == IsFinite(e.hours_worked) /\ IsFinite(e.hourly_rate)

AtMostRegular(d) ==
    IF d.kind = "inf" THEN d.coef < 0 ELSE d.coef <= 40 * Pow10(d.scale)

\* The constraint of e that is violated first, in the order name, hours, rate.
Violated(e) ==
    IF ~(e.name.isStr /\ e.name.text # "") THEN InvalidName
    ELSE IF e.hours_worked.coef < 0 THEN NegativeHours
    ELSE IF e.hourly_rate.coef <= 0 THEN NonPositiveRate
    ELSE NoError

\* The records the last call wrote to the log.
Logged == SubSeq(log, last.mark + 1, Len(log))

CalledOn == IF last.target = 0 THEN subject ELSE employees[last.target]

\* C1: for Employee("John", 40.5, 15.75) calculate_payroll returns gross_pay
\* 637.875, tax_amount 127.575 and net_pay 510.3, unrounded.
C1_ScenarioD ==
    (last.op = "calc" /\ last.target = 0 /\ subject = JohnD) =>
        /\ last.error = NoError
        /\ Units(ret.gross_pay) = 63787500
        /\ Units(ret.tax_amount) = 12757500
        /\ Units(ret.net_pay) = 51030000

\* C2: for an employee with hours_worked <= 40 (40 included) the breakdown
\* calculate_payroll returns has overtime_hours = 0, overtime_pay = 0 and
\* gross_pay = hours_worked * hourly_rate; it returns one whenever hours and
\* rate are finite.
C2_RegularHours ==
    (last.op = "calc" /\ AtMostRegular(CalledOn.hours_worked)) =>
        /\ Finite(CalledOn) => last.error = NoError
        /\ last.error = NoError =>
              /\ Units(ret.overtime_hours) = 0
              /\ Units(ret.overtime_pay) = 0
              /\ Units(ret.gross_pay) =
                    CalledOn.hours_worked.coef * CalledOn.hourly_rate.coef
                      * Pow10(5 - CalledOn.hours_worked.scale
                                - CalledOn.hourly_rate.scale)

C2_Witness ==
    /\ last.op = "calc"
    /\ last.error = NoError
    /\ CalledOn.hours_worked = Dec(40, 0)
    /\ CalledOn.hourly_rate = Dec(1575, 2)

\* The hours beyond 40 of an employee, in 10^-5 hours.
OvertimeUnits(e) ==
    (e.hours_worked.coef - 40 * Pow10(e.hours_worked.scale))
        * Pow10(5 - e.hours_worked.scale)

\* (hours - 40) * rate * 1.5 in 10^-5.
OvertimePayUnits(e) ==
    (e.hours_worked.coef - 40 * Pow10(e.hours_worked.scale))
        * e.hourly_rate.coef * 15
        * Pow10(4 - e.hours_worked.scale - e.hourly_rate.scale)

C4_TaxAndNet ==
    (last.op = "calc" /\ last.error = NoError) =>
        /\ 10 * Units(ret.tax_amount) = 2 * Units(ret.gross_pay)
        /\ Units(ret.net_pay) = Units(ret.gross_pay) - Units(ret.tax_amount)
        /\ Units(ret.tax_amount) + Units(ret.net_pay) = Units(ret.gross_pay)

\* A valid employee whose tax has more decimal places than a cent.
C4_Witness ==
    /\ last.op = "calc"
    /\ last.error = NoError
    /\ Violated(CalledOn) = NoError
    /\ Units(ret.tax_amount) % 1000 # 0

\* C5: validate raises nothing exactly when the name is a non-empty string,
\* hours_worked >= 0 and hourly_rate > 0, and otherwise raises the error of the
\* first violated constraint in the order name, hours, rate; it never changes
\* the employee.
C5_Validate ==
    /\ [](last.op = "validate" => last.error = Violated(subject))
    /\ [][last'.op = "validate" => subject' = subject]_vars

\* validate has rejected an employee that violates all three constraints.
C5_Witness ==
    /\ last.op = "validate"
    /\ last.error = InvalidName
    /\ ~Truthy(subject.name)
    /\ subject.hours_worked.coef < 0
    /\ subject.hourly_rate.coef <= 0

\* The positions of args whose employee violates a constraint.
Rejects == { k \in 1..Len(args) : Violated(args[k]) # NoError }

FirstReject == CHOOSE k \in Rejects : \A j \in Rejects : k <= j

\* C6: the constructor succeeds exactly when args is non-empty and all of its
\* employees are valid; on an empty list it raises the empty-roster error, and
\* otherwise the error of the first invalid employee, having called validate
\* on no employee after that one.
C6_Construct ==
    last.op = "construct" =>
        /\ last.error = NoError <=> (args # << >> /\ Rejects = {})
        /\ phase = (IF last.error = NoError THEN "ready" ELSE "rejected")
        /\ args = << >> => (last.error = EmptyRoster /\ ret = 0)
        /\ (args # << >> /\ Rejects = {}) => ret = Len(args)
        /\ Rejects # {} =>
              /\ last.error = Violated(args[FirstReject])
              /\ ret = FirstReject

\* Two invalid employees with different errors: the first one's is raised.
C6_Witness ==
    /\ last.op = "construct"
    /\ Len(args) = 2
    /\ Rejects = {1, 2}
    /\ Violated(args[1]) # Violated(args[2])
    /\ last.error = Violated(args[1])
    /\ ret = 1

\* The lines of a joined text.
RECURSIVE SplitLines(_)
SplitLines(s) ==
    IF \A k \in 1..Len(s) : s[k] # "\n" THEN <<s>>
    ELSE LET k == CHOOSE k \in 1..Len(s) :
                      s[k] = "\n" /\ \A j \in 1..(k - 1) : s[j] # "\n"
         IN  <<SubSeq(s, 1, k - 1)>> \o SplitLines(SubSeq(s, k + 1, Len(s)))

\* The sum over emps of the unrounded amount f of calculate_payroll, in 10^-5.
RECURSIVE SumUnits(_, _)
SumUnits(emps, f) ==
    IF emps = << >> THEN 0
    ELSE Units(calculate_payroll(Head(emps)).value[f]) + SumUnits(Tail(emps), f)

\* A non-negative amount in 10^-5 rounded half-even to cents.
HalfEvenCents(u) ==
    IF u % 1000 > 500 \/ (u % 1000 = 500 /\ (u \div 1000) % 2 = 1)
    THEN u \div 1000 + 1
    ELSE u \div 1000

\* C7: the report of a roster of n employees has n + 4 lines: the two header
\* lines, one line per employee in roster order, and the two footer lines,
\* whose totals are the sums of the unrounded gross_pay and net_pay, rounded to
\* 2 decimals once (John(40,15), Jane(45,20): 1550.00 and 1240.00).
C7_Report ==
    (last.op = "report" /\ last.error = NoError) =>
        LET lines == SplitLines(ret)
            n == Len(employees)
        IN  /\ Len(lines) = n + 4
            /\ lines[1] = <<"Employee Payroll Report:">>
            /\ lines[2] = <<"========================">>
            /\ \A i \in 1..n :
                  lines[2 + i] =
                     report_line(employees[i], calculate_payroll(employees[i]).value)
            /\ lines[n + 3] = <<"Total Gross: $">>
                  \o Plain(HalfEvenCents(SumUnits(employees, "gross_pay")), 2)
            /\ lines[n + 4] = <<"Total Net: $">>
                  \o Plain(HalfEvenCents(SumUnits(employees, "net_pay")), 2)
            /\ employees = <<John, Jane>> =>
                  /\ lines[5] = <<"Total Gross: $", "1", "5", "5", "0", ".", "0", "0">>
                  /\ lines[6] = <<"Total Net: $", "1", "2", "4", "0", ".", "0", "0">>

\* The sum of the gross amounts rounded one by one, in cents.
RECURSIVE SumOfRounded(_)
SumOfRounded(emps) ==
    IF emps = << >> THEN 0
    ELSE HalfEvenCents(Units(calculate_payroll(Head(emps)).value.gross_pay))
           + SumOfRounded(Tail(emps))

\* A report whose total differs from the sum of its rounded lines.
C7_Witness ==
    /\ last.op = "report"
    /\ last.error = NoError
    /\ Len(employees) = 2
    /\ SumOfRounded(employees) # HalfEvenCents(SumUnits(employees, "gross_pay"))

\* C8: calculate_payroll is a function of hours_worked and hourly_rate alone:
\* a call yields what the first call on an employee with the same hours and
\* rate yielded, whatever was called in between, and leaves every employee
\* record as it was.
C8_Pure ==
    /\ []((/\ last.op = "calc"
           /\ probe.set
           /\ CalledOn.hours_worked = probe.hours_worked
           /\ CalledOn.hourly_rate = probe.hourly_rate)
          => /\ last.error = probe.error
             /\ last.error = NoError => ret = probe.value)
    /\ [][last'.op = "calc" => (employees' = employees /\ subject' = subject)]_vars

\* A later call on another employee with the hours and rate of the first call.
C8_Witness ==
    /\ last.op = "calc"
    /\ probe.set
    /\ probe.target # last.target
    /\ CalledOn.hours_worked = probe.hours_worked
    /\ CalledOn.hourly_rate = probe.hourly_rate
    /\ CalledOn.hours_worked = Dec(45, 0)
    /\ ret = probe.value

\* C9: once constructed, the processor's roster is the sequence handed to the
\* constructor, is non-empty, and all of its members are valid, whatever
\* calculate_payroll and generate_report calls have been made.
C9_Roster ==
    phase = "ready" =>
        /\ employees = args
        /\ employees # << >>
        /\ \A i \in 1..Len(employees) : Violated(employees[i]) = NoError

C9_Witness ==
    /\ phase = "ready"
    /\ last.op = "report"
    /\ probe.set
    /\ Len(employees) = 2

\* The positions of the roster whose calculation fails: the arithmetic signals
\* exactly when hours or rate is infinite.
Failing == { k \in 1..Len(employees) : ~Finite(employees[k]) }

FirstFailing == CHOOSE k \in Failing : \A j \in Failing : k <= j

CalcRecord(e) ==
    [level |-> "ERROR",
     msg |-> <<"Error calculating payroll for ", e.name.text, ": ", InvalidOperation>>]

ReportRecord ==
    [level |-> "ERROR", msg |-> <<"Error generating report: ", InvalidOperation>>]

\* C10 as stated: a failure of calculate_payroll, called directly or from
\* generate_report, is logged exactly once, at error severity and with the
\* employee's name, and re-raised; no report is returned; a call that succeeds
\* logs nothing.
C10_LoggedOnce ==
    last.op \in {"calc", "report"} =>
        IF last.error # NoError
        THEN /\ last.error = InvalidOperation
             /\ ret = NoValue
             /\ Logged = <<CalcRecord(IF last.op = "calc" THEN CalledOn
                                       ELSE employees[FirstFailing])>>
        ELSE Logged = << >>

\* C10 as amended: each layer logs the failure once.  A failing direct call
\* writes one error record with the employee's name; a failure inside
\* generate_report writes that record for the first failing employee and then a
\* second one, "Error generating report", before the same exception reaches
\* the caller; no report is returned; a call that succeeds logs nothing.
C10_LoggedPerLayer ==
    /\ last.op = "calc" =>
          IF ~Finite(CalledOn)
          THEN /\ last.error = InvalidOperation
               /\ ret = NoValue
               /\ Logged = <<CalcRecord(CalledOn)>>
          ELSE last.error = NoError /\ Logged = << >>
    /\ last.op = "report" =>
          IF Failing # {}
          THEN /\ last.error = InvalidOperation
               /\ ret = NoValue
               /\ Logged = <<CalcRecord(employees[FirstFailing]), ReportRecord>>
          ELSE last.error = NoError /\ Logged = << >> /\ ret # NoValue

\* generate_report has failed on the second employee of the roster.
C10_Witness ==
    /\ last.op = "report"
    /\ last.error # NoError
    /\ Failing = {2}
    /\ Len(Logged) = 2

====
